---- MODULE Spec2Model ----
(***************************************************************************)
(* The student CRUD API and the /say proxy of server.js, with the remote   *)
(* function of the second source file.                                     *)
(*                                                                         *)
(* Text values are sequences of tokens: a token is a run of plain          *)
(* characters ("Ann", "x.co"), one character with a meaning to a validator *)
(* or to the sanitizer ("&", "@", "1"), an HTML tag ("<img>") or an HTML   *)
(* entity ("&amp;").  A JSON value is a record [t, s, n]: its type, its    *)
(* text when a string, its value when a number.                            *)
(*                                                                         *)
(* A handler runs on a single-threaded event loop: the code between two    *)
(* awaits is one atomic step.  A statement takes effect at the storage and *)
(* its result reaches the handler in one step (QueryOk, QueryFail).        *)
(***************************************************************************)
EXTENDS Integers, Sequences, FiniteSets, TLC

VARIABLES
    students,           \* the rows of table students: records [id, name, email, age]
    insertId,           \* the last AUTO_INCREMENT value the storage generated
    activeConnections,  \* connections of the pool that are checked out
    inflight,           \* the requests awaiting I/O, oldest first
    responses,          \* responses[r]: how many responses request r was sent
    out,                \* the response sent last, with its request
    created             \* the studentId of every 201 response, in order

vars == <<students, insertId, activeConnections, inflight, responses, out, created>>

-----------------------------------------------------------------------------
(* Bounds *)

MaxRequests == 2

MaxPoolRequests == 6

-----------------------------------------------------------------------------
(* Configuration *)

connectionLimit == 5

azureFunctionUrl == "https://shashankhfunction123.azurewebsites.net/api/Function?keyword="

-----------------------------------------------------------------------------
(* JSON values *)

Undefined == [t |-> "undefined", s |-> <<>>, n |-> 0]

Str(s) == [t |-> "string", s |-> s, n |-> 0]

Num(n) == [t |-> "number", s |-> <<>>, n |-> n]

DigitChars == <<"0", "1", "2", "3", "4", "5", "6", "7", "8", "9">>

DigitSet == {DigitChars[i] : i \in 1..10}

DigitValue(c) == (CHOOSE i \in 1..10 : DigitChars[i] = c) - 1

RECURSIVE Digits(_)
\* The decimal text of a number, as String(n) gives it.
Digits(n) ==
    IF n < 0 THEN <<"-">> \o Digits(0 - n)
    ELSE IF n < 10 THEN <<DigitChars[n + 1]>>
    ELSE Digits(n \div 10) \o <<DigitChars[(n % 10) + 1]>>

\* express-validator's toString: the text the standard validators test.
toString(v) ==
    CASE v.t = "string" -> v.s
      [] v.t = "number" -> Digits(v.n)
      [] OTHER -> <<>>

Unsigned(s) == IF s # <<>> /\ s[1] \in {"+", "-"} THEN Tail(s) ELSE s

\* The digits a text starts with.
DigitPrefix(s) ==
    LET stops == {i \in 1..Len(s) : s[i] \notin DigitSet}
    IN  IF stops = {} THEN s
        ELSE SubSeq(s, 1, (CHOOSE i \in stops : \A j \in stops : i <= j) - 1)

RECURSIVE DecimalValue(_)
DecimalValue(s) ==
    IF s = <<>> THEN 0
    ELSE 10 * DecimalValue(SubSeq(s, 1, Len(s) - 1)) + DigitValue(s[Len(s)])

\* The number the storage takes the text s for where it expects an integer:
\* the value of its leading sign and digits.
IdValue(s) ==
    IF s # <<>> /\ s[1] = "-" THEN 0 - DecimalValue(DigitPrefix(Unsigned(s)))
    ELSE DecimalValue(DigitPrefix(Unsigned(s)))

-----------------------------------------------------------------------------
(* Validators *)

\* parseInt's reading: text that starts with a digit.
isInt_parseInt(v) == toString(v) # <<>> /\ toString(v)[1] \in DigitSet

\* An optional sign, then one digit or more, and nothing else.
isInt(v) ==
    LET u == Unsigned(toString(v))
    IN  u # <<>> /\ \A i \in 1..Len(u) : u[i] \in DigitSet

isString(v) == v.t = "string"

notEmpty(v) == toString(v) # <<>>

LocalPartTokens == {"a", "b", "c", "&"}

FQDNTokens == {"x.co"}

AtPositions(s) == {i \in 1..Len(s) : s[i] = "@"}

\* One "@", before it a local part of permitted characters, after it a
\* fully qualified domain name.
isEmail(v) ==
    LET s == toString(v)
    IN  /\ Cardinality(AtPositions(s)) = 1
        /\ LET at == CHOOSE i \in AtPositions(s) : TRUE
           IN  /\ at > 1
               /\ \A i \in 1..(at - 1) : s[i] \in LocalPartTokens
               /\ Len(s) = at + 1
               /\ s[at + 1] \in FQDNTokens

Check(name, v) ==
    CASE name = "isInt" -> isInt(v)
      [] name = "isString" -> isString(v)
      [] name = "notEmpty" -> notEmpty(v)
      [] name = "isEmail" -> isEmail(v)

-----------------------------------------------------------------------------
(* Sanitization: sanitize-html with its default options *)

NonTextOpen == {"<script>"}

NonTextClose == {"</script>"}

DisallowedTags == {"<img>", "</img>"}

decodeEntity(tok) ==
    CASE tok = "&amp;" -> "&"
      [] tok = "&lt;" -> "<"
      [] tok = "&gt;" -> ">"
      [] OTHER -> tok

escapeHtml(tok) ==
    CASE tok = "&" -> "&amp;"
      [] tok = "<" -> "&lt;"
      [] tok = ">" -> "&gt;"
      [] OTHER -> tok

RECURSIVE sanitizeFrom(_, _)
\* skip: inside an element whose text is dropped with it.
sanitizeFrom(s, skip) ==
    IF s = <<>> THEN <<>>
    ELSE LET h == Head(s)
             t == Tail(s)
         IN  IF skip THEN sanitizeFrom(t, h \notin NonTextClose)
             ELSE IF h \in NonTextOpen THEN sanitizeFrom(t, TRUE)
             ELSE IF h \in NonTextClose \cup DisallowedTags THEN sanitizeFrom(t, FALSE)
             ELSE <<escapeHtml(decodeEntity(h))>> \o sanitizeFrom(t, FALSE)

sanitizeHtml(s) == sanitizeFrom(s, FALSE)

-----------------------------------------------------------------------------
(* Requests and routes *)

NoBody == [name |-> Undefined, email |-> Undefined, age |-> Undefined]

Req(method, path, id, body, keyword) ==
    [method |-> method, path |-> path, id |-> id, body |-> body, keyword |-> keyword]

Validator(location, path, check, msg) ==
    [location |-> location, path |-> path, check |-> check, msg |-> msg]

idChain == <<Validator("params", "id", "isInt", "Student ID must be an integer")>>

\* withMessage names the message of the validator before it only: isString
\* keeps the default one.
postChain ==
    << Validator("body", "name", "isString", "Invalid value"),
       Validator("body", "name", "notEmpty", "Name is required"),
       Validator("body", "email", "isEmail", "Invalid email"),
       Validator("body", "age", "isInt", "Age must be an integer") >>

patchChain == idChain \o <<Validator("body", "email", "isEmail", "Invalid email")>>

Route(method, path, chain, sanitizesEmail, line) ==
    [method |-> method, path |-> path, chain |-> chain,
     sanitizesEmail |-> sanitizesEmail, line |-> line]

\* The registrations of the file, in its order.
Routes ==
    << Route("GET", "/students", <<>>, FALSE, 49),
       Route("GET", "/students/:id", idChain, FALSE, 78),
       Route("POST", "/students", postChain, TRUE, 118),
       Route("PATCH", "/students/:id", patchChain, TRUE, 166),
       Route("DELETE", "/students/:id", idChain, FALSE, 203),
       Route("GET", "/say", <<>>, FALSE, 221),
       Route("GET", "/students", <<>>, FALSE, 284),
       Route("GET", "/students/:id", <<>>, FALSE, 313),
       Route("POST", "/students", <<>>, FALSE, 346),
       Route("PATCH", "/students/:id", <<>>, FALSE, 383),
       Route("DELETE", "/students/:id", <<>>, FALSE, 411) >>

Matching(req) ==
    {i \in 1..Len(Routes) : Routes[i].method = req.method /\ Routes[i].path = req.path}

Dispatch_lastRegistered(req) ==
    Routes[CHOOSE i \in Matching(req) : \A j \in Matching(req) : j <= i]

\* The router runs the first registration that matches; no handler calls
\* next(), so a later registration of the same method and path never runs.
Dispatch(req) ==
    Routes[CHOOSE i \in Matching(req) : \A j \in Matching(req) : i <= j]

Field(req, c) == IF c.location = "params" THEN Str(req.id) ELSE req.body[c.path]

Failed(route, req) == SelectSeq(route.chain, LAMBDA c : ~Check(c.check, Field(req, c)))

validationResult_firstOnly(route, req) ==
    LET f == Failed(route, req)
    IN  IF f = <<>> THEN <<>>
        ELSE <<[path |-> f[1].path, msg |-> f[1].msg, location |-> f[1].location]>>

\* Every validator of every chain runs; each failure is one error.
validationResult(route, req) ==
    LET f == Failed(route, req)
    IN  [i \in 1..Len(f) |->
            [path |-> f[i].path, msg |-> f[i].msg, location |-> f[i].location]]

-----------------------------------------------------------------------------
(* Storage: the statements the handlers issue *)

\* AUTO_INCREMENT: the storage generates the key of an inserted row.
NextInsertId(last) == last + 1

\* An integer column takes the bound value as a number.
IntColumn(v) == IF v.t = "number" THEN v.n ELSE IdValue(toString(v))

SelectAll(tbl) == tbl

SelectById_noWhere(tbl, id) == tbl

SelectById(tbl, id) == {row \in tbl : row.id = IdValue(id)}

Insert(tbl, id, name, email, age) ==
    tbl \cup {[id |-> id, name |-> name, email |-> email, age |-> IntColumn(age)]}

UpdateEmail_setsId(tbl, email, id) ==
    {IF row.id = IdValue(id) THEN [row EXCEPT !.id = row.id + 10, !.email = email] ELSE row
        : row \in tbl}

UpdateEmail_setsName(tbl, email, id) ==
    {IF row.id = IdValue(id) THEN [row EXCEPT !.name = email, !.email = email] ELSE row
        : row \in tbl}

UpdateEmail(tbl, email, id) ==
    {IF row.id = IdValue(id) THEN [row EXCEPT !.email = email] ELSE row : row \in tbl}

Delete(tbl, id) == {row \in tbl : row.id # IdValue(id)}

-----------------------------------------------------------------------------
(* The connection pool *)

AcquireTimeoutMessage == "retrieve connection from pool timeout"

SqlErrorMessage == "sql error"

\* getConnection resolves at once while fewer than connectionLimit
\* connections are checked out; otherwise the request is queued.
CanCheckOut(active) == active < connectionLimit

Waiting(fl) == {i \in 1..Len(fl) : fl[i].pc = "waiting"}

Oldest(fl) == CHOOSE i \in Waiting(fl) : \A j \in Waiting(fl) : i <= j

Without(fl, i) == SubSeq(fl, 1, i - 1) \o SubSeq(fl, i + 1, Len(fl))

release_noHandOver(fl, active) == [inflight |-> fl, active |-> active - 1]

\* conn.release(): the connection goes to the oldest queued request, or
\* back to the pool when none waits.
release(fl, active) ==
    IF Waiting(fl) # {}
    THEN [inflight |-> [fl EXCEPT ![Oldest(fl)].pc = "query"], active |-> active]
    ELSE [inflight |-> fl, active |-> active - 1]

-----------------------------------------------------------------------------
(* Responses *)

NoReq == Req("", "", <<>>, NoBody, Undefined)

None == [req |-> NoReq, status |-> 0, body |-> [kind |-> "none"], calls |-> <<>>]

Response(req, status, body, calls) ==
    [req |-> req, status |-> status, body |-> body, calls |-> calls]

Message(text) == [kind |-> "message", message |-> text]

Error(text) == [kind |-> "error", error |-> text]

\* res.json / res.status().json: one response is written.
json(n) == n + 1

\* The handler of inflight[i] ends with a response and leaves fl in flight.
Respond(i, status, body, fl) ==
    /\ out' = Response(inflight[i].req, status, body, inflight[i].calls)
    /\ responses' = [responses EXCEPT ![inflight[i].rid] = json(@)]
    /\ inflight' = fl

At(i, method, path) ==
    /\ inflight[i].pc = "query"
    /\ inflight[i].req.method = method
    /\ inflight[i].req.path = path

-----------------------------------------------------------------------------
(* The student handlers *)

Flight(rid, req, pc, name, email, calls) ==
    [rid |-> rid, req |-> req, pc |-> pc, name |-> name, email |-> email, calls |-> calls]

\* A request for one of the five student routes arrives: the validators
\* run, then the handler up to its await of pool.getConnection().
Receive(req, cap) ==
    /\ Len(responses) < cap
    /\ LET route == Dispatch(req)
           errors == validationResult(route, req)
           email == IF route.sanitizesEmail THEN sanitizeHtml(toString(req.body.email))
                    ELSE toString(req.body.email)
           name == sanitizeHtml(toString(req.body.name))
           pc == IF CanCheckOut(activeConnections) THEN "query" ELSE "waiting"
       IN  IF errors # <<>>
           THEN /\ out' = Response(req, 400, [kind |-> "errors", errors |-> errors], <<>>)
                /\ responses' = Append(responses, json(0))
                /\ UNCHANGED <<inflight, activeConnections>>
           ELSE /\ inflight' = Append(inflight,
                                  Flight(Len(responses) + 1, req, pc, name, email, <<>>))
                /\ activeConnections' =
                       IF pc = "query" THEN activeConnections + 1 ELSE activeConnections
                /\ responses' = Append(responses, 0)
                /\ out' = out
    /\ UNCHANGED <<students, insertId, created>>

\* GET /students: the rows arrive.
GetStudents(i) ==
    /\ At(i, "GET", "/students")
    /\ LET rows == SelectAll(students)
           p == release(Without(inflight, i), activeConnections)
       IN  /\ activeConnections' = p.active
           /\ Respond(i, 200, [kind |-> "rows", rows |-> rows], p.inflight)
    /\ UNCHANGED <<students, insertId, created>>

\* rows.length ? rows[0] : { message }
GetBody(rows) ==
    IF rows # {} THEN [kind |-> "row", row |-> CHOOSE row \in rows : TRUE]
    ELSE Message("Student not found")

\* GET /students/:id: the rows arrive.
GetStudentById(i) ==
    /\ At(i, "GET", "/students/:id")
    /\ LET rows == SelectById(students, inflight[i].req.id)
           p == release(Without(inflight, i), activeConnections)
       IN  /\ activeConnections' = p.active
           /\ Respond(i, 200, GetBody(rows), p.inflight)
    /\ UNCHANGED <<students, insertId, created>>

\* POST /students: the insert's result arrives.
PostStudent(i) ==
    /\ At(i, "POST", "/students")
    /\ LET id == NextInsertId(insertId)
           p == release(Without(inflight, i), activeConnections)
       IN  /\ students' = Insert(students, id, inflight[i].name, inflight[i].email,
                                 inflight[i].req.body.age)
           /\ insertId' = id
           /\ activeConnections' = p.active
           /\ created' = Append(created, id)
           /\ Respond(i, 201, [kind |-> "created", message |-> "Student added successfully",
                               studentId |-> id], p.inflight)

\* PATCH /students/:id: the update's result arrives.
PatchStudent(i) ==
    /\ At(i, "PATCH", "/students/:id")
    /\ LET p == release(Without(inflight, i), activeConnections)
       IN  /\ students' = UpdateEmail(students, inflight[i].email, inflight[i].req.id)
           /\ activeConnections' = p.active
           /\ Respond(i, 200, Message("Student email updated successfully"), p.inflight)
    /\ UNCHANGED <<insertId, created>>

\* DELETE /students/:id: the delete's result arrives.
DeleteStudent(i) ==
    /\ At(i, "DELETE", "/students/:id")
    /\ LET p == release(Without(inflight, i), activeConnections)
       IN  /\ students' = Delete(students, inflight[i].req.id)
           /\ activeConnections' = p.active
           /\ Respond(i, 200, Message("Student deleted successfully"), p.inflight)
    /\ UNCHANGED <<insertId, created>>

QueryFail_swallowed(i) ==
    /\ inflight[i].pc = "query"
    /\ inflight' = [inflight EXCEPT ![i].pc = "failed"]
    /\ UNCHANGED <<students, insertId, activeConnections, responses, out, created>>

\* conn.query rejects: the catch block answers 500 with err.message.  The
\* statement had no effect, and conn.release() was skipped.
QueryFail(i) ==
    /\ inflight[i].pc = "query"
    /\ Respond(i, 500, Error(SqlErrorMessage), Without(inflight, i))
    /\ UNCHANGED <<students, insertId, activeConnections, created>>

\* pool.getConnection() rejects for the oldest queued request: no connection
\* came free within the pool's acquireTimeout, which createPool leaves at
\* the library's default.  The catch block answers 500.
GetConnectionTimeout ==
    /\ Waiting(inflight) # {}
    /\ Respond(Oldest(inflight), 500, Error(AcquireTimeoutMessage),
               Without(inflight, Oldest(inflight)))
    /\ UNCHANGED <<students, insertId, activeConnections, created>>

-----------------------------------------------------------------------------
(* GET /say and the remote function *)

UrlDelimiters == {"&", "#"}

\* req.query.keyword || "nothing"
Keyword(req) ==
    IF req.keyword.t = "string" /\ req.keyword.s # <<>> THEN req.keyword.s
    ELSE <<"nothing">>

\* The template string: the keyword is appended as it is.
Url(keyword) == <<azureFunctionUrl>> \o keyword

\* request.query.keyword at the remote function: the text after "keyword="
\* up to the next delimiter of the query string.
QueryKeyword(url) ==
    LET q == Tail(url)
        stops == {i \in 1..Len(q) : q[i] \in UrlDelimiters}
    IN  IF stops = {} THEN q
        ELSE SubSeq(q, 1, (CHOOSE i \in stops : \A j \in stops : i <= j) - 1)

\* request.query.keyword || body.keyword || 'nothing'; a GET carries no body.
RemoteKeyword(url) == IF QueryKeyword(url) # <<>> THEN QueryKeyword(url) ELSE <<"nothing">>

handler(url) == <<"Shashankh says \"">> \o RemoteKeyword(url) \o <<"\"">>

\* GET /say arrives: the handler up to its await of axios.get.
ReceiveSay(req, cap) ==
    /\ Len(responses) < cap
    /\ inflight' = Append(inflight, Flight(Len(responses) + 1, req, "remote", <<>>, <<>>,
                                           <<Url(Keyword(req))>>))
    /\ responses' = Append(responses, 0)
    /\ UNCHANGED <<students, insertId, activeConnections, out, created>>

\* The remote function answers: its body is relayed.
SayOk(i) ==
    /\ inflight[i].pc = "remote"
    /\ Respond(i, 200, [kind |-> "data", data |-> handler(inflight[i].calls[1])],
               Without(inflight, i))
    /\ UNCHANGED <<students, insertId, activeConnections, created>>

\* axios.get rejects (network error, non-2xx status).
SayFail(i) ==
    /\ inflight[i].pc = "remote"
    /\ Respond(i, 500, Error("Error calling Azure Function"), Without(inflight, i))
    /\ UNCHANGED <<students, insertId, activeConnections, created>>

-----------------------------------------------------------------------------
(* Inputs *)

PathIds == {<<"1">>, <<"2">>, <<"x">>, <<"1", "x">>}

Names == {Undefined, Str(<<>>), Str(<<"<img>", "Ann", "&">>)}

Emails == {Str(<<"a">>), Str(<<"a", "&", "b", "@", "x.co">>), Str(<<"c", "@", "x.co">>)}

Ages == {Num(30), Str(<<"x">>)}

Keywords == {Undefined, Str(<<>>), Str(<<"hi">>), Str(<<"hi", "&", "x=1">>)}

Bodies == {[name |-> n, email |-> e, age |-> a] : n \in Names, e \in Emails, a \in Ages}

StudentRequests ==
    {Req("GET", "/students", <<>>, NoBody, Undefined)}
    \cup {Req("GET", "/students/:id", id, NoBody, Undefined) : id \in PathIds}
    \cup {Req("POST", "/students", <<>>, b, Undefined) : b \in Bodies}
    \cup {Req("PATCH", "/students/:id", id, [NoBody EXCEPT !.email = e], Undefined)
            : id \in PathIds, e \in Emails}
    \cup {Req("DELETE", "/students/:id", id, NoBody, Undefined) : id \in PathIds}

SayRequests == {Req("GET", "/say", <<>>, NoBody, k) : k \in Keywords}

-----------------------------------------------------------------------------
(* The server *)

\* Rows that earlier requests left in the table: the database outlives the
\* server.  Row 1 may have been deleted since.
StoredRow(id, email) ==
    [id |-> id, name |-> sanitizeHtml(<<"<img>", "Ann", "&">>),
     email |-> sanitizeHtml(email), age |-> 30]

InitialTables ==
    { {},
      {StoredRow(1, <<"a", "&", "b", "@", "x.co">>)},
      {StoredRow(2, <<"c", "@", "x.co">>)},
      {StoredRow(1, <<"a", "&", "b", "@", "x.co">>), StoredRow(2, <<"c", "@", "x.co">>)} }

MaxKey(tbl) == IF tbl = {} THEN 0 ELSE CHOOSE k \in {r.id : r \in tbl} : \A r \in tbl : r.id <= k

Init ==
    /\ students \in InitialTables
    /\ insertId = MaxKey(students)
    /\ activeConnections = 0
    /\ inflight = <<>>
    /\ responses = <<>>
    /\ out = None
    /\ created = <<>>

Next ==
    \/ \E req \in StudentRequests : Receive(req, MaxRequests)
    \/ \E req \in SayRequests : ReceiveSay(req, MaxRequests)
    \/ \E i \in 1..Len(inflight) : GetStudents(i)
    \/ \E i \in 1..Len(inflight) : GetStudentById(i)
    \/ \E i \in 1..Len(inflight) : PostStudent(i)
    \/ \E i \in 1..Len(inflight) : PatchStudent(i)
    \/ \E i \in 1..Len(inflight) : DeleteStudent(i)
    \/ \E i \in 1..Len(inflight) : QueryFail(i)
    \/ \E i \in 1..Len(inflight) : SayOk(i)
    \/ \E i \in 1..Len(inflight) : SayFail(i)

Spec == Init /\ [][Next]_vars

-----------------------------------------------------------------------------
(* The server under more requests than the pool has connections *)

PoolRequests ==
    { Req("GET", "/students", <<>>, NoBody, Undefined),
      Req("DELETE", "/students/:id", <<"1">>, NoBody, Undefined) }

PoolInit ==
    /\ students = {StoredRow(1, <<"c", "@", "x.co">>)}
    /\ insertId = 1
    /\ activeConnections = 0
    /\ inflight = <<>>
    /\ responses = <<>>
    /\ out = None
    /\ created = <<>>

PoolNext ==
    \/ \E req \in PoolRequests : Receive(req, MaxPoolRequests)
    \/ \E i \in 1..Len(inflight) : GetStudents(i)
    \/ \E i \in 1..Len(inflight) : DeleteStudent(i)
    \/ \E i \in 1..Len(inflight) : QueryFail(i)
    \/ GetConnectionTimeout

PoolSpec == PoolInit /\ [][PoolNext]_vars

\* The storage settles the statement of request r, with rows or an error.
Settle(r) ==
    \E i \in 1..Len(inflight) :
        /\ inflight[i].rid = r
        /\ (GetStudents(i) \/ DeleteStudent(i) \/ QueryFail(i))

\* Fair scheduling: the storage goes on settling statements while any is
\* outstanding, and the timer of a queued getConnection fires.
FairPoolSpec ==
    /\ PoolSpec
    /\ WF_vars(\E r \in 1..MaxPoolRequests : Settle(r))
    /\ WF_vars(GetConnectionTimeout)

-----------------------------------------------------------------------------
(* Properties *)

\* This step sends a response: out' is that response.
Answers ==
    \E r \in 1..Len(responses') :
        responses'[r] >= 1 /\ (r > Len(responses) \/ responses[r] = 0)

Querying == {i \in 1..Len(inflight) : inflight[i].pc = "query"}

ById(req) == req.path = "/students/:id"

IntegerIds == {<<"1">>, <<"2">>}

NonIntegerIds == {<<"x">>, <<"1", "x">>}

ValidEmails == {Str(<<"a", "&", "b", "@", "x.co">>), Str(<<"c", "@", "x.co">>)}

\* The rows of tbl whose key reads as the text id.
RowsFor(tbl, id) == {row \in tbl : Digits(row.id) = id}

ErrorPaths(resp) == {resp.body.errors[i].path : i \in 1..Len(resp.body.errors)}

\* C1: a request that has been answered holds no connection: every
\* checked-out connection belongs to a request still awaiting its statement.
C1_ReleasedOnEveryExit == activeConnections = Cardinality(Querying)

\* C2: GET, PATCH and DELETE /students/:id with a non-integer id answer 400
\* with a validation error citing id; such a request never holds or awaits a
\* connection, and the step that answers it leaves table and pool unchanged.
C2_NonIntegerIdRejected ==
    /\ [](/\ \A i \in 1..Len(inflight) :
                ~(ById(inflight[i].req) /\ inflight[i].req.id \in NonIntegerIds)
          /\ (ById(out.req) /\ out.req.id \in NonIntegerIds) =>
                /\ out.status = 400
                /\ out.body.kind = "errors"
                /\ "id" \in ErrorPaths(out))
    /\ [][(Answers /\ ById(out'.req) /\ out'.req.id \in NonIntegerIds) =>
            /\ students' = students
            /\ insertId' = insertId
            /\ activeConnections' = activeConnections
            /\ inflight' = inflight]_vars

C2_Witness ==
    /\ out.req.method = "DELETE"
    /\ out.req.id = <<"1", "x">>
    /\ out.status = 400
    /\ students # {}

\* The fields of a create request that break their constraint.
ViolatedFields(req) ==
    (IF req.body.name \in {Undefined, Str(<<>>)} THEN {"name"} ELSE {})
    \cup (IF req.body.email \in ValidEmails THEN {} ELSE {"email"})
    \cup (IF req.body.age = Num(30) THEN {} ELSE {"age"})

IsCreate(req) == req.method = "POST" /\ req.path = "/students"

\* C3: a create request with an empty name, a malformed email or a
\* non-integer age answers 400 with a validation error that reports exactly
\* the violated fields; it never holds or awaits a connection, and the step
\* that answers it inserts nothing.
C3_CreateValidation ==
    /\ [](/\ \A i \in 1..Len(inflight) :
                IsCreate(inflight[i].req) => ViolatedFields(inflight[i].req) = {}
          /\ (IsCreate(out.req) /\ ViolatedFields(out.req) # {}) =>
                /\ out.status = 400
                /\ out.body.kind = "errors"
                /\ ErrorPaths(out) = ViolatedFields(out.req))
    /\ [][(Answers /\ IsCreate(out'.req) /\ ViolatedFields(out'.req) # {}) =>
            /\ students' = students
            /\ insertId' = insertId
            /\ activeConnections' = activeConnections
            /\ inflight' = inflight]_vars

C3_Witness ==
    /\ IsCreate(out.req)
    /\ ViolatedFields(out.req) = {"email", "age"}
    /\ out.status = 400

C8_OnlyEmailUpdated ==
    [][/\ (Answers /\ out'.req.method = "PATCH") =>
            /\ {r.id : r \in students'} = {r.id : r \in students}
            /\ Cardinality(students') = Cardinality(students)
            /\ \A q \in students : \E r \in students' :
                    /\ r.id = q.id /\ r.name = q.name /\ r.age = q.age
                    /\ Digits(q.id) # out'.req.id => r = q
       /\ (Answers /\ out'.req.method = "GET") => students' = students
       /\ (\E q \in students : \E r \in students' : r.id = q.id /\ r # q) =>
            (Answers /\ out'.req.method = "PATCH" /\ out'.status = 200)]_vars

C8_Witness ==
    /\ out.req.method = "PATCH"
    /\ out.req.id = <<"1">>
    /\ out.status = 200
    /\ students = {[StoredRow(1, <<"a", "&", "b", "@", "x.co">>)
                        EXCEPT !.email = <<"c", "@", "x.co">>],
                   StoredRow(2, <<"c", "@", "x.co">>)}

\* C9: every answered GET /say made one call of the remote function, which
\* received the keyword "nothing" when none was supplied (an empty value
\* counts as none) and the supplied value otherwise; the answer is 200 with
\* the remote body, or 500 with the fixed message.
C9_KeywordForwarded ==
    (out.req.path = "/say") =>
        /\ Len(out.calls) = 1
        /\ RemoteKeyword(out.calls[1]) =
                (IF out.req.keyword \in {Undefined, Str(<<>>)} THEN <<"nothing">>
                 ELSE out.req.keyword.s)
        /\ \/ out.status = 200 /\ out.body = [kind |-> "data", data |-> handler(out.calls[1])]
           \/ out.status = 500 /\ out.body = Error("Error calling Azure Function")

C10_EveryRequestAnswered ==
    /\ []<>(\A r \in 1..Len(responses) : responses[r] = 1)
    /\ [](\A r \in 1..Len(responses) : responses[r] <= 1)
    /\ [][\A r \in 1..Len(responses) : responses'[r] >= responses[r]]_vars

C10_Witness ==
    /\ activeConnections = connectionLimit
    /\ Querying = {}
    /\ Len(responses) > connectionLimit
    /\ \A r \in 1..Len(responses) : responses[r] = 1
    /\ out.body = Error(AcquireTimeoutMessage)

====
